---- MODULE Spec2Model ----
(***************************************************************************)
(* ScheduleBook of schedulebot/schedule.py: the master list of template    *)
(* items, the group index built by add_template, group search              *)
(* (find_groups) and the expansion of recurring template items into dated  *)
(* occurrences (calculate_schedule).                                       *)
(*                                                                         *)
(* A date is its proleptic Gregorian ordinal (date.toordinal()), a time of *)
(* day is minutes since midnight, a datetime is [date, time], a string is  *)
(* a sequence of one-character strings.                                    *)
(***************************************************************************)
EXTENDS Integers, Sequences, FiniteSets, TLC

VARIABLES
    templates,    \* ScheduleBook._templates: the master list
    group_index,  \* ScheduleBook._group_index: [keys: insertion order, bucket: key -> items]
    loaded,       \* history: the book as the latest add_template call left it
    call,         \* the latest call: [op, template, pattern, group, start, end]
    result,       \* what the latest call returned: [raised, value]
    today,        \* date.today(), the anchor of get_date_range
    resolved,     \* history: per DateRangeRequest, what was last resolved for today
    conversation, \* the state the ConversationHandler holds for the user
    user_data,    \* context.user_data: [group]
    update        \* the latest update a handler of the bot took: [handler, text]

\* what the calls on a ScheduleBook leave alone
session == <<today, resolved, conversation, user_data, update>>

vars == <<templates, group_index, loaded, call, result, session>>

-----------------------------------------------------------------------------
(* Bounds of the model *)

\* the master list holds at most MaxItems items
MaxItems == 2

\* calculate_schedule is called with dates up to Day0 + MaxDay
MaxDay == 2

\* get_date_range is given anchors from MaxAnchor days before a Monday to
\* MaxAnchor days after it
MaxAnchor == 3

-----------------------------------------------------------------------------
(* Calendar arithmetic used by calculate_schedule: date.weekday(),         *)
(* date.isocalendar(), datetime.combine, datetime + timedelta              *)

\* Monday 2024-10-14 (ISO week 42), as an ordinal
Day0 == 739173

MinutesPerDay == 24 * 60

days_before_year(year) ==
    LET y == year - 1
    IN  y * 365 + (y \div 4) - (y \div 100) + (y \div 400)

year_of(ordinal) ==
    CHOOSE year \in (ordinal \div 366)..((ordinal \div 365) + 1) :
        /\ days_before_year(year) < ordinal
        /\ ordinal <= days_before_year(year + 1)

\* date.weekday(): Monday = 0 .. Sunday = 6
weekday(ordinal) == (ordinal + 6) % 7

isoweek1monday(year) ==
    LET firstday == days_before_year(year) + 1
        firstweekday == (firstday + 6) % 7
        week1monday == firstday - firstweekday
    IN  IF firstweekday > 3 THEN week1monday + 7 ELSE week1monday

\* date.isocalendar()[1]: the ISO week number
isocalendar_week(ordinal) ==
    LET year == year_of(ordinal)
        week == (ordinal - isoweek1monday(year)) \div 7
    IN  IF week < 0
        THEN ((ordinal - isoweek1monday(year - 1)) \div 7) + 1
        ELSE IF week >= 52 /\ ordinal >= isoweek1monday(year + 1)
             THEN 1
             ELSE week + 1

\* the week parity of a date, as calculate_schedule computes it
week_parity(current_date) ==
    IF isocalendar_week(current_date) % 2 # 0 THEN "odd" ELSE "even"

datetime_combine(d, t) == [date |-> d, time |-> t]

\* variant of timedelta_add: the time wraps, the date stays
timedelta_add_no_carry(dt, minutes) ==
    [date |-> dt.date, time |-> (dt.time + minutes) % MinutesPerDay]

\* datetime + timedelta(minutes = ...)
timedelta_add(dt, minutes) ==
    [date |-> dt.date + ((dt.time + minutes) \div MinutesPerDay),
     time |-> (dt.time + minutes) % MinutesPerDay]

\* the fixed length of a class, in minutes
Duration == 90

-----------------------------------------------------------------------------
(* get_date_range *)

\* DateRangeRequest
Requests ==
    {"today", "yesterday", "tomorrow", "current_week", "last_week", "next_week"}

\* variant of get_date_range: the weeks start on Sunday
get_date_range_from_sunday(request, anchor) ==
    LET since == (weekday(anchor) + 1) % 7
    IN  CASE request = "today" -> [raised |-> "none", value |-> <<anchor, anchor>>]
          [] request = "yesterday" ->
                [raised |-> "none", value |-> <<anchor - 1, anchor - 1>>]
          [] request = "tomorrow" ->
                [raised |-> "none", value |-> <<anchor + 1, anchor + 1>>]
          [] request = "current_week" ->
                [raised |-> "none", value |-> <<anchor - since, anchor - since + 6>>]
          [] request = "last_week" ->
                [raised |-> "none",
                 value |-> <<anchor - (since + 7), anchor - (since + 7) + 6>>]
          [] request = "next_week" ->
                [raised |-> "none",
                 value |-> <<anchor - (since - 7), anchor - (since - 7) + 6>>]
          [] OTHER -> [raised |-> "ValueError", value |-> <<>>]

\* variant of get_date_range: last week and next week are the seven days
\* before and after the anchor
get_date_range_from_anchor(request, anchor) ==
    CASE request = "today" -> [raised |-> "none", value |-> <<anchor, anchor>>]
      [] request = "yesterday" -> [raised |-> "none", value |-> <<anchor - 1, anchor - 1>>]
      [] request = "tomorrow" -> [raised |-> "none", value |-> <<anchor + 1, anchor + 1>>]
      [] request = "current_week" ->
            LET start_of_week == anchor - weekday(anchor)
            IN  [raised |-> "none", value |-> <<start_of_week, start_of_week + 6>>]
      [] request = "last_week" ->
            [raised |-> "none", value |-> <<anchor - 7, anchor - 1>>]
      [] request = "next_week" ->
            [raised |-> "none", value |-> <<anchor + 1, anchor + 7>>]
      [] OTHER -> [raised |-> "ValueError", value |-> <<>>]

\* get_date_range(request, today = anchor): (start, end), both inclusive
get_date_range(request, anchor) ==
    CASE request = "today" -> [raised |-> "none", value |-> <<anchor, anchor>>]
      [] request = "yesterday" ->
            LET yesterday == anchor - 1
            IN  [raised |-> "none", value |-> <<yesterday, yesterday>>]
      [] request = "tomorrow" ->
            LET tomorrow == anchor + 1
            IN  [raised |-> "none", value |-> <<tomorrow, tomorrow>>]
      [] request = "current_week" ->
            LET start_of_week == anchor - weekday(anchor)
                end_of_week == start_of_week + 6
            IN  [raised |-> "none", value |-> <<start_of_week, end_of_week>>]
      [] request = "last_week" ->
            LET start_of_last_week == anchor - (weekday(anchor) + 7)
                end_of_last_week == start_of_last_week + 6
            IN  [raised |-> "none", value |-> <<start_of_last_week, end_of_last_week>>]
      [] request = "next_week" ->
            LET start_of_next_week == anchor - (weekday(anchor) - 7)
                end_of_next_week == start_of_next_week + 6
            IN  [raised |-> "none", value |-> <<start_of_next_week, end_of_next_week>>]
      [] OTHER -> [raised |-> "ValueError", value |-> <<>>]

-----------------------------------------------------------------------------
(* Strings and the regular expression of find_groups *)

\* The symbols of a string: characters, and the words parse_date_range looks
\* for, each taken as one symbol (transliterated): as the keyboard of
\* select_group sends it, in lower case and in upper case.
Symbols ==
    {"a", "A", "b", "B", "1", ".",
     "Sohodni", "sohodni", "SOHODNI",
     "Potochnyi tyzhden", "potochnyi tyzhden", "POTOCHNYI TYZHDEN",
     "zavtra", "vchora", "nastupnyi tyzhden", "mynulyi tyzhden"}

Lower == [c \in Symbols |->
            CASE c = "A" -> "a"
              [] c = "B" -> "b"
              [] c \in {"Sohodni", "SOHODNI"} -> "sohodni"
              [] c \in {"Potochnyi tyzhden", "POTOCHNYI TYZHDEN"} -> "potochnyi tyzhden"
              [] OTHER -> c]

Upper == [c \in Symbols |->
            CASE c = "a" -> "A"
              [] c = "b" -> "B"
              [] c \in {"Sohodni", "sohodni"} -> "SOHODNI"
              [] c \in {"Potochnyi tyzhden", "potochnyi tyzhden"} -> "POTOCHNYI TYZHDEN"
              [] OTHER -> c]

\* str.lower()
str_lower(text) == [k \in 1..Len(text) |-> Lower[text[k]]]

\* str.upper()
str_upper(text) == [k \in 1..Len(text) |-> Upper[text[k]]]

\* re.escape(pattern): every character becomes a literal
re_escape(pattern) ==
    [k \in 1..Len(pattern) |-> [kind |-> "literal", char |-> pattern[k]]]

\* an element of a compiled expression against a character, under re.IGNORECASE
token_matches(token, char) ==
    \/ token.kind = "any"
    \/ token.kind = "literal" /\ Lower[token.char] = Lower[char]

RECURSIVE match_at(_, _, _, _)
match_at(regex, text, pos, k) ==
    IF k > Len(regex) THEN TRUE
    ELSE IF pos + k - 1 > Len(text) THEN FALSE
    ELSE IF token_matches(regex[k], text[pos + k - 1])
         THEN match_at(regex, text, pos, k + 1)
         ELSE FALSE

RECURSIVE regex_search_from(_, _, _)
regex_search_from(regex, text, pos) ==
    IF pos > Len(text) + 1 THEN FALSE
    ELSE IF match_at(regex, text, pos, 1) THEN TRUE
    ELSE regex_search_from(regex, text, pos + 1)

\* regex.search(text)
regex_search(regex, text) == regex_search_from(regex, text, 1)

-----------------------------------------------------------------------------
(* ScheduleBook *)

EmptyIndex == [keys |-> <<>>, bucket |-> <<>>]

EmptyBook == [templates |-> <<>>, group_index |-> EmptyIndex]

RECURSIVE index_groups(_, _, _)
\* add_template's inner loop: for group in item.groups, from position k
index_groups(index, item, k) ==
    IF k > Len(item.groups) THEN index
    ELSE LET group == item.groups[k]
             created == IF group \in DOMAIN index.bucket
                        THEN index
                        ELSE [keys |-> Append(index.keys, group),
                              bucket |-> index.bucket @@ (group :> <<>>)]
             appended == [created EXCEPT !.bucket[group] = Append(@, item)]
         IN  index_groups(appended, item, k + 1)

RECURSIVE index_items(_, _, _)
\* add_template's outer loop: for item in template, from position k
index_items(index, template, k) ==
    IF k > Len(template) THEN index
    ELSE index_items(index_groups(index, template[k], 1), template, k + 1)

\* variant of add_template: the index is built anew from the template alone
add_template_rebuilding(book, template) ==
    [templates |-> book.templates \o template,
     group_index |-> index_items(EmptyIndex, template, 1)]

add_template(book, template) ==
    [templates |-> book.templates \o template,
     group_index |-> index_items(book.group_index, template, 1)]

RECURSIVE filter_groups(_, _, _)
\* the generator of find_groups, consumed: the keys, in the dict's order, the regex finds
filter_groups(index, regex, k) ==
    IF k > Len(index.keys) THEN <<>>
    ELSE IF regex_search(regex, index.keys[k])
         THEN <<index.keys[k]>> \o filter_groups(index, regex, k + 1)
         ELSE filter_groups(index, regex, k + 1)

\* variant of compile_pattern without re.escape: "." stands for any character
compile_unescaped(pattern) ==
    [k \in 1..Len(pattern) |->
        IF pattern[k] = "." THEN [kind |-> "any", char |-> "."]
        ELSE [kind |-> "literal", char |-> pattern[k]]]

\* re.compile(re.escape(pattern), re.IGNORECASE)
compile_pattern(pattern) == re_escape(pattern)

find_groups(index, pattern) ==
    [raised |-> "none", value |-> filter_groups(index, compile_pattern(pattern), 1)]

\* "if item.dates": neither None nor an empty list
truthy(dates) == ~dates.is_none /\ dates.list # <<>>

\* "current_date in item.dates"
date_in(current_date, dates) ==
    \E k \in DOMAIN dates.list : dates.list[k] = current_date

\* variant of item_occurs: the week parity is not looked at
item_occurs_any_parity(item, current_date) ==
    /\ item.weekday = weekday(current_date)
    /\ ~(truthy(item.dates) /\ ~date_in(current_date, item.dates))

\* variant of item_occurs: a listed date counts whatever its weekday and parity
item_occurs_listed_date(item, current_date) ==
    \/ truthy(item.dates) /\ date_in(current_date, item.dates)
    \/ /\ item.weekday = weekday(current_date)
       /\ (item.week_parity = "None" \/ item.week_parity = week_parity(current_date))
       /\ ~truthy(item.dates)

\* the conditions under which the loop body appends an occurrence of item
item_occurs(item, current_date) ==
    /\ item.weekday = weekday(current_date)
    /\ (item.week_parity = "None" \/ item.week_parity = week_parity(current_date))
    /\ ~(truthy(item.dates) /\ ~date_in(current_date, item.dates))

\* ScheduleItem(slot, name, start, end) of item on current_date
schedule_item(item, current_date) ==
    LET start_datetime == datetime_combine(current_date, item.start)
        end_datetime == timedelta_add(start_datetime, Duration)
    IN  [slot |-> item.slot, name |-> item.name,
         start |-> start_datetime, end |-> end_datetime]

\* variant of scan_items: the bucket is walked from its end
RECURSIVE scan_items_reversed(_, _, _, _)
scan_items_reversed(bucket, k, current_date, schedule) ==
    IF k > Len(bucket) THEN schedule
    ELSE LET item == bucket[Len(bucket) + 1 - k]
         IN  scan_items_reversed(bucket, k + 1, current_date,
                IF item_occurs(item, current_date)
                THEN Append(schedule, schedule_item(item, current_date))
                ELSE schedule)

RECURSIVE scan_items(_, _, _, _)
\* "for item in self._group_index[group]", from position k
scan_items(bucket, k, current_date, schedule) ==
    IF k > Len(bucket) THEN schedule
    ELSE scan_items(bucket, k + 1, current_date,
            IF item_occurs(bucket[k], current_date)
            THEN Append(schedule, schedule_item(bucket[k], current_date))
            ELSE schedule)

RECURSIVE scan_dates(_, _, _, _, _)
\* "while current_date <= end"
scan_dates(index, group, current_date, end, schedule) ==
    IF ~(current_date <= end) THEN [raised |-> "none", value |-> schedule]
    ELSE IF group \notin DOMAIN index.bucket
         THEN [raised |-> "KeyError", value |-> <<>>]
         ELSE scan_dates(index, group, current_date + 1, end,
                  scan_items(index.bucket[group], 1, current_date, schedule))

\* variant of calculate_schedule without the test for an unknown group
calculate_schedule_unguarded(index, group, start, end) ==
    scan_dates(index, group, start, end, <<>>)

\* variant of calculate_schedule: the start date is scanned before the range is tested
calculate_schedule_start_first(index, group, start, end) ==
    IF group \notin DOMAIN index.bucket
    THEN [raised |-> "none", value |-> <<>>]
    ELSE scan_dates(index, group, start + 1, end,
             scan_items(index.bucket[group], 1, start, <<>>))

calculate_schedule(index, group, start, end) ==
    IF group \notin DOMAIN index.bucket
    THEN [raised |-> "none", value |-> <<>>]
    ELSE scan_dates(index, group, start, end, <<>>)

-----------------------------------------------------------------------------
(* Inputs *)

GroupA == <<"A", "1">>
GroupB == <<"a", "1", "b">>
GroupC == <<"B">>

NoDates == [is_none |-> TRUE, list |-> <<>>]
DateList(ds) == [is_none |-> FALSE, list |-> ds]

\* Monday, odd weeks, two groups
Math ==
    [slot |-> 1, name |-> "Math", weekday |-> 0, start |-> 9 * 60,
     groups |-> <<GroupA, GroupB>>, week_parity |-> "odd", dates |-> NoDates]

\* Wednesday, even weeks
Physics ==
    [slot |-> 2, name |-> "Physics", weekday |-> 2, start |-> 11 * 60,
     groups |-> <<GroupA>>, week_parity |-> "even", dates |-> NoDates]

\* Sunday 23:00, every week
Chemistry ==
    [slot |-> 3, name |-> "Chemistry", weekday |-> 6, start |-> 23 * 60,
     groups |-> <<GroupB>>, week_parity |-> "None", dates |-> NoDates]

\* Wednesday, only on the listed dates: a Tuesday and a Wednesday
Seminar ==
    [slot |-> 1, name |-> "Seminar", weekday |-> 2, start |-> 8 * 60,
     groups |-> <<GroupA>>, week_parity |-> "None",
     dates |-> DateList(<<Day0 + 1, Day0 + 2>>)]

\* Tuesday, only on the listed date: a Monday
Tutorial ==
    [slot |-> 4, name |-> "Tutorial", weekday |-> 1, start |-> 14 * 60,
     groups |-> <<GroupA>>, week_parity |-> "None", dates |-> DateList(<<Day0>>)]

\* Tuesday, with a list of dates that is empty
Elective ==
    [slot |-> 5, name |-> "Elective", weekday |-> 1, start |-> 10 * 60,
     groups |-> <<GroupB>>, week_parity |-> "None", dates |-> DateList(<<>>)]

\* Monday, naming its group twice
Lab ==
    [slot |-> 6, name |-> "Lab", weekday |-> 0, start |-> 12 * 60,
     groups |-> <<GroupA, GroupA>>, week_parity |-> "None", dates |-> NoDates]

Items == {Math, Physics, Chemistry, Seminar, Tutorial, Elective, Lab}

\* GroupC is the group of no item
Groups == {GroupA, GroupB, GroupC}

Patterns == {<<>>, <<"a", "1">>, <<"1", "B">>, <<".">>, <<"b", "1">>}

\* Sunday of ISO week 41 up to Day0 + MaxDay
Dates == (Day0 - 1)..(Day0 + MaxDay)

RECURSIVE SeqsUpTo(_, _)
SeqsUpTo(S, n) ==
    IF n = 0 THEN {<<>>}
    ELSE LET shorter == SeqsUpTo(S, n - 1)
         IN  shorter \cup {Append(s, x) : s \in shorter, x \in S}

NoCall ==
    [op |-> "init", template |-> <<>>, pattern |-> <<>>, group |-> <<>>,
     start |-> 0, end |-> 0]

NotResolved == [done |-> FALSE, start |-> 0, end |-> 0, schedule |-> <<>>]

NothingResolved == [request \in Requests |-> NotResolved]

\* user_data without a 'group'
NoGroup == [is_none |-> TRUE, name |-> <<>>]

NoUpdate == [handler |-> "none", text |-> <<>>, raised |-> "none", options |-> <<>>]

Anchors == (Day0 - MaxAnchor)..(Day0 + MaxAnchor)

-----------------------------------------------------------------------------
(* The state machine: a book, and the calls made on it *)

Init ==
    /\ templates = <<>>
    /\ group_index = EmptyIndex
    /\ loaded = EmptyBook
    /\ call = NoCall
    /\ result = [raised |-> "none", value |-> <<>>]
    /\ today = Day0
    /\ resolved = NothingResolved
    /\ conversation = "END"
    /\ user_data = [group |-> NoGroup]
    /\ update = NoUpdate

AddTemplate ==
    \E template \in SeqsUpTo(Items, MaxItems - Len(templates)) :
        LET book == add_template([templates |-> templates, group_index |-> group_index],
                                 template)
        IN  /\ templates' = book.templates
            /\ group_index' = book.group_index
            /\ loaded' = book
            /\ call' = [NoCall EXCEPT !.op = "add_template", !.template = template]
            /\ result' = [raised |-> "none", value |-> <<>>]
            /\ UNCHANGED session

FindGroups ==
    \E pattern \in Patterns :
        /\ result' = find_groups(group_index, pattern)
        /\ call' = [NoCall EXCEPT !.op = "find_groups", !.pattern = pattern]
        /\ UNCHANGED <<templates, group_index, loaded, session>>

\* variant of CalculateSchedule: an unknown group gets an empty bucket, as a defaultdict would
CalculateScheduleCreatingBucket ==
    \E group \in Groups, start \in Dates, end \in Dates :
        /\ result' = calculate_schedule(group_index, group, start, end)
        /\ call' = [NoCall EXCEPT !.op = "calculate_schedule", !.group = group,
                                  !.start = start, !.end = end]
        /\ group_index' = IF group \in DOMAIN group_index.bucket
                          THEN group_index
                          ELSE [keys |-> Append(group_index.keys, group),
                                bucket |-> group_index.bucket @@ (group :> <<>>)]
        /\ UNCHANGED <<templates, loaded, session>>

CalculateSchedule ==
    \E group \in Groups, start \in Dates, end \in Dates :
        /\ result' = calculate_schedule(group_index, group, start, end)
        /\ call' = [NoCall EXCEPT !.op = "calculate_schedule", !.group = group,
                                  !.start = start, !.end = end]
        /\ UNCHANGED <<templates, group_index, loaded, session>>

Next == AddTemplate \/ FindGroups \/ CalculateSchedule

Spec == Init /\ [][Next]_vars

-----------------------------------------------------------------------------
(* get_date_range, called for one anchor *)

InitRange ==
    /\ templates = <<>>
    /\ group_index = EmptyIndex
    /\ loaded = EmptyBook
    /\ call = NoCall
    /\ result = [raised |-> "none", value |-> <<>>]
    /\ today \in Anchors
    /\ resolved = NothingResolved
    /\ conversation = "END"
    /\ user_data = [group |-> NoGroup]
    /\ update = NoUpdate

GetDateRange ==
    \E request \in Requests :
        LET range == get_date_range(request, today)
        IN  /\ result' = range
            /\ resolved' = [resolved EXCEPT ![request] =
                                [done |-> TRUE, start |-> range.value[1],
                                 end |-> range.value[2], schedule |-> <<>>]]
            /\ UNCHANGED <<templates, group_index, loaded, call, today,
                           conversation, user_data, update>>

NextRange == GetDateRange

SpecRange == InitRange /\ [][NextRange]_vars

-----------------------------------------------------------------------------
(* What the claims are stated with *)

IsCalc == call.op = "calculate_schedule"

IsFind == call.op = "find_groups"

Indexed(group) == group \in DOMAIN group_index.bucket

\* the bucket of the group of the latest calculate_schedule call
Bucket == IF Indexed(call.group) THEN group_index.bucket[call.group] ELSE <<>>

InRange(d) == call.start <= d /\ d <= call.end

IsoParity(d) == IF isocalendar_week(d) % 2 = 1 THEN "odd" ELSE "even"

Listed(item, d) == \E k \in DOMAIN item.dates.list : item.dates.list[k] = d

RightWeek(item, d) ==
    /\ item.weekday = weekday(d)
    /\ (item.week_parity = "None" \/ item.week_parity = IsoParity(d))

\* the three conditions as the claim words them
OccursAsClaimed(item, d) ==
    RightWeek(item, d) /\ (item.dates.is_none \/ Listed(item, d))

\* the three conditions, an empty list of dates counting as no list
OccursOrEmptyDates(item, d) ==
    RightWeek(item, d)
        /\ (item.dates.is_none \/ item.dates.list = <<>> \/ Listed(item, d))

\* occurrence o is one of item on date d
IsOccurrenceOf(o, item, d) ==
    /\ o.slot = item.slot
    /\ o.name = item.name
    /\ o.start = [date |-> d, time |-> item.start]

\* the result holds one occurrence for each (date in range, bucket entry) that
\* Occurs, and nothing else
OccurrencesAre(Occurs(_, _)) ==
    LET r == result.value
        b == Bucket
        pairs == {p \in Dates \X DOMAIN b : InRange(p[1]) /\ Occurs(b[p[2]], p[1])}
    IN  /\ result.raised = "none"
        /\ Len(r) = Cardinality(pairs)
        /\ \A d \in Dates, k \in DOMAIN b :
               Cardinality({n \in DOMAIN r : IsOccurrenceOf(r[n], b[k], d)})
                 = Cardinality({j \in DOMAIN b :
                                   /\ <<d, j>> \in pairs
                                   /\ IsOccurrenceOf(schedule_item(b[j], d), b[k], d)})

\* the minutes from the start of the calendar to a datetime
Minutes(dt) == dt.date * MinutesPerDay + dt.time

-----------------------------------------------------------------------------
(* C1 *)

-----------------------------------------------------------------------------
(* C2 *)

\* C2: the result of calculate_schedule is in ascending order of date, and the
\* occurrences of one date are in the order of their items in the bucket.
C2_DateThenBucketOrder ==
    (IsCalc /\ Indexed(call.group)) =>
        LET r == result.value
            ident(o) == [slot |-> o.slot, name |-> o.name, start |-> o.start]
        IN  /\ \A m, n \in DOMAIN r : m < n => r[m].start.date <= r[n].start.date
            /\ \A d \in Dates :
                  LET OnDate(o) == o.start.date = d
                      Due(item) == InRange(d) /\ OccursOrEmptyDates(item, d)
                      got == SelectSeq(r, OnDate)
                      due == SelectSeq(Bucket, Due)
                  IN  [n \in DOMAIN got |-> ident(got[n])]
                        = [k \in DOMAIN due |->
                              [slot |-> due[k].slot, name |-> due[k].name,
                               start |-> [date |-> d, time |-> due[k].start]]]

\* two occurrences of one date, the later slot and start time first
C2_Witness ==
    /\ IsCalc
    /\ \E m, n \in DOMAIN result.value :
          /\ m < n
          /\ result.value[m].start.date = result.value[n].start.date
          /\ result.value[m].slot > result.value[n].slot
          /\ result.value[m].start.time > result.value[n].start.time

-----------------------------------------------------------------------------
(* C3 *)

\* C3: an item with a non-empty list of dates occurs on d only if d is
\* listed, is of the item's weekday and of its week parity (when set).
C3_DatesOnlyNarrow ==
    IsCalc =>
        \A k \in DOMAIN Bucket, d \in Dates :
            (/\ Bucket[k].dates.list # <<>>
             /\ \E n \in DOMAIN result.value :
                   IsOccurrenceOf(result.value[n], Bucket[k], d))
            => (Listed(Bucket[k], d) /\ RightWeek(Bucket[k], d))

\* a range with an occurrence of a dated item, a listed date of another
\* weekday, and a date of the right weekday that is not listed
C3_Witness ==
    /\ IsCalc
    /\ \E k \in DOMAIN Bucket, d \in Dates :
          /\ InRange(d) /\ Listed(Bucket[k], d)
          /\ \E n \in DOMAIN result.value : IsOccurrenceOf(result.value[n], Bucket[k], d)
    /\ \E k \in DOMAIN Bucket, d \in Dates :
          /\ InRange(d) /\ Listed(Bucket[k], d) /\ ~RightWeek(Bucket[k], d)
    /\ \E k \in DOMAIN Bucket, d \in Dates :
          /\ InRange(d) /\ Bucket[k].dates.list # <<>>
          /\ ~Listed(Bucket[k], d) /\ RightWeek(Bucket[k], d)

-----------------------------------------------------------------------------
(* C4 *)

\* C4: for a group that is no key of the index, calculate_schedule returns an
\* empty sequence and raises nothing, whatever start and end.
C4_UnknownGroupIsEmpty ==
    (IsCalc /\ ~Indexed(call.group)) => result = [raised |-> "none", value |-> <<>>]

\* an unknown group asked of a book that holds items, over a non-empty range
C4_Witness ==
    /\ IsCalc /\ ~Indexed(call.group)
    /\ templates # <<>>
    /\ call.start < call.end

-----------------------------------------------------------------------------
(* C5 *)

\* C5: with start > end, calculate_schedule returns an empty sequence,
\* whatever the group and the book.
C5_ReversedRangeIsEmpty ==
    (IsCalc /\ call.start > call.end) => result = [raised |-> "none", value |-> <<>>]

\* a reversed range whose start is a day on which an item of the group occurs
C5_Witness ==
    /\ IsCalc /\ call.start > call.end
    /\ \E k \in DOMAIN Bucket : OccursOrEmptyDates(Bucket[k], call.start)

-----------------------------------------------------------------------------
(* C6 *)

\* C6: every returned occurrence has the slot and name of a bucket entry,
\* starts on a date of the range at that entry's start time, and ends exactly
\* 90 minutes later, on the next day if need be.
C6_NinetyMinutes ==
    IsCalc =>
        \A n \in DOMAIN result.value :
            LET o == result.value[n]
            IN  /\ \E k \in DOMAIN Bucket, d \in Dates :
                      InRange(d) /\ IsOccurrenceOf(o, Bucket[k], d)
                /\ o.end.time \in 0..(MinutesPerDay - 1)
                /\ Minutes(o.end) - Minutes(o.start) = 90

\* an occurrence that ends on the day after it starts
C6_Witness ==
    /\ IsCalc
    /\ \E n \in DOMAIN result.value :
          result.value[n].end.date = result.value[n].start.date + 1

-----------------------------------------------------------------------------
(* C7 *)

ItemNames(item, group) == \E k \in DOMAIN item.groups : item.groups[k] = group

\* C7: every add_template call appends its items to the master list, a group
\* is a key of the index exactly when an item of the master list names it, and
\* its bucket is the subsequence of the master list of the items naming it.
C7_BucketsAreSubsequences ==
    /\ [][call'.op = "add_template" => templates' = templates \o call'.template]_vars
    /\ [](\A group \in Groups :
            LET Names(item) == ItemNames(item, group)
            IN  /\ Indexed(group) <=> \E k \in DOMAIN templates : Names(templates[k])
                /\ Indexed(group) => group_index.bucket[group] = SelectSeq(templates, Names))

-----------------------------------------------------------------------------
(* C8 *)

\* C8: however the items were split over add_template calls, the book, and
\* what find_groups and calculate_schedule return, are those of the book that
\* one add_template call with the whole master list builds.
C8_SplitLoadEqualsOneLoad ==
    LET one == add_template(EmptyBook, templates)
    IN  /\ templates = one.templates
        /\ group_index = one.group_index
        /\ IsFind => result = find_groups(one.group_index, call.pattern)
        /\ IsCalc => result = calculate_schedule(one.group_index, call.group,
                                                 call.start, call.end)

\* a book loaded in at least two calls that brought items
C8_Witness ==
    /\ call.op = "add_template"
    /\ call.template # <<>>
    /\ Len(templates) > Len(call.template)

-----------------------------------------------------------------------------
(* C9 *)

\* pattern is a substring of text, letter case aside
ContainsIgnoringCase(text, pattern) ==
    \E offset \in 0..(Len(text) - Len(pattern)) :
        \A k \in DOMAIN pattern : Lower[text[offset + k]] = Lower[pattern[k]]

\* C9: find_groups returns the keys of the index, each once, that contain the
\* pattern as a literal substring, letter case aside; an empty sequence when
\* there is none, and never an error.
C9_LiteralSubstringMatches ==
    IsFind =>
        LET r == result.value
        IN  /\ result.raised = "none"
            /\ \A m, n \in DOMAIN r : r[m] = r[n] => m = n
            /\ {r[n] : n \in DOMAIN r}
                 = {group \in DOMAIN group_index.bucket :
                       ContainsIgnoringCase(group, call.pattern)}

\* a pattern that finds one of two indexed groups, in another letter case
C9_Witness ==
    /\ IsFind
    /\ Len(group_index.keys) = 2
    /\ Len(result.value) = 1
    /\ \A offset \in 0..(Len(result.value[1]) - Len(call.pattern)) :
          \E k \in DOMAIN call.pattern : result.value[1][offset + k] # call.pattern[k]

-----------------------------------------------------------------------------
(* C10 *)

\* C10: find_groups and calculate_schedule leave the master list and the
\* index as the latest add_template call left them, and return what that
\* book gives for their arguments, so equal calls return equal results.
C10_ReadsChangeNothing ==
    /\ templates = loaded.templates
    /\ group_index = loaded.group_index
    /\ IsFind => result = find_groups(loaded.group_index, call.pattern)
    /\ IsCalc => result = calculate_schedule(loaded.group_index, call.group,
                                             call.start, call.end)

\* a search that follows a load and finds a group
C10_Witness ==
    /\ IsFind
    /\ templates # <<>>
    /\ result.value # <<>>

-----------------------------------------------------------------------------
(* A week's schedule of a class held every other week: calculate_schedule  *)
(* over get_date_range, as show_schedule calls them                        *)

\* Monday 2026-12-28, the Monday of ISO week 53 of 2026
YearEndMonday == days_before_year(2027) - 3

BiweeklyAnchors ==
    Anchors \cup ((YearEndMonday - MaxAnchor)..(YearEndMonday + MaxAnchor))

\* items with a week parity and no dates, both of GroupA
BiweeklyItems == {Math, Physics}

InitBiweekly ==
    /\ templates = <<>>
    /\ group_index = EmptyIndex
    /\ loaded = EmptyBook
    /\ call = NoCall
    /\ result = [raised |-> "none", value |-> <<>>]
    /\ today \in BiweeklyAnchors
    /\ resolved = NothingResolved
    /\ conversation = "END"
    /\ user_data = [group |-> NoGroup]
    /\ update = NoUpdate

\* the book is loaded once, with one item
LoadBiweeklyItem ==
    /\ templates = <<>>
    /\ \E item \in BiweeklyItems :
          LET book == add_template(EmptyBook, <<item>>)
          IN  /\ templates' = book.templates
              /\ group_index' = book.group_index
              /\ loaded' = book
              /\ call' = [NoCall EXCEPT !.op = "add_template", !.template = <<item>>]
              /\ result' = [raised |-> "none", value |-> <<>>]
              /\ UNCHANGED session

\* the schedule of GroupA for a week relative to today
ShowWeek ==
    /\ templates # <<>>
    /\ \E request \in {"last_week", "current_week", "next_week"} :
          LET range == get_date_range(request, today).value
              items == calculate_schedule(group_index, GroupA, range[1], range[2])
          IN  /\ result' = items
              /\ call' = [NoCall EXCEPT !.op = "calculate_schedule", !.group = GroupA,
                                        !.start = range[1], !.end = range[2]]
              /\ resolved' = [resolved EXCEPT ![request] =
                                  [done |-> TRUE, start |-> range[1], end |-> range[2],
                                   schedule |-> items.value]]
              /\ UNCHANGED <<templates, group_index, loaded, today,
                             conversation, user_data, update>>

NextBiweekly == LoadBiweeklyItem \/ ShowWeek

SpecBiweekly == InitBiweekly /\ [][NextBiweekly]_vars

-----------------------------------------------------------------------------
(* The bot: the conversation of one user with the handlers of build_bot *)

\* parse_date_range: the request of the first keyword, in the order of the
\* dict, that the text holds in lower case; None without one
parse_date_range(text) ==
    LET lowered == str_lower(text)
        has(key) == \E k \in DOMAIN lowered : lowered[k] = key
    IN  CASE has("sohodni") -> "today"
          [] ~has("sohodni") /\ has("zavtra") -> "tomorrow"
          [] ~has("sohodni") /\ ~has("zavtra") /\ has("vchora") -> "yesterday"
          [] ~has("sohodni") /\ ~has("zavtra") /\ ~has("vchora")
                /\ has("potochnyi tyzhden") -> "current_week"
          [] ~has("sohodni") /\ ~has("zavtra") /\ ~has("vchora")
                /\ ~has("potochnyi tyzhden") /\ has("nastupnyi tyzhden") -> "next_week"
          [] ~has("sohodni") /\ ~has("zavtra") /\ ~has("vchora")
                /\ ~has("potochnyi tyzhden") /\ ~has("nastupnyi tyzhden")
                /\ has("mynulyi tyzhden") -> "last_week"
          [] OTHER -> "None"

\* a call of schedule.calculate_schedule by a handler, as the record of it
calculated(group, start, end) ==
    [NoCall EXCEPT !.op = "calculate_schedule", !.group = group,
                   !.start = start, !.end = end]

\* variant of select_group: the text the user sent is stored as the group
select_group_storing_text(index, data, text, anchor) ==
    LET group == str_upper(text)
        group_options == find_groups(index, group).value
    IN  IF Len(group_options) # 1
        THEN [state |-> "SELECT_GROUP", user_data |-> data, options |-> group_options,
              call |-> NoCall, result |-> [raised |-> "none", value |-> <<>>]]
        ELSE LET range == get_date_range("today", anchor).value
             IN  [state |-> "SHOW_SCHEDULE",
                  user_data |-> [data EXCEPT !.group = [is_none |-> FALSE, name |-> group]],
                  options |-> group_options,
                  call |-> calculated(group, range[1], range[2]),
                  result |-> calculate_schedule(index, group, range[1], range[2])]

\* select_group: the state it returns, user_data after it, what find_groups
\* gave it, and its call of calculate_schedule
select_group(index, data, text, anchor) ==
    LET group == str_upper(text)
        group_options == find_groups(index, group).value
    IN  IF group_options = <<>>
        THEN [state |-> "SELECT_GROUP", user_data |-> data, options |-> group_options,
              call |-> NoCall, result |-> [raised |-> "none", value |-> <<>>]]
        ELSE IF Len(group_options) > 1
        THEN [state |-> "SELECT_GROUP", user_data |-> data, options |-> group_options,
              call |-> NoCall, result |-> [raised |-> "none", value |-> <<>>]]
        ELSE LET chosen == group_options[1]
                 range == get_date_range("today", anchor).value
             IN  [state |-> "SHOW_SCHEDULE",
                  user_data |-> [data EXCEPT !.group = [is_none |-> FALSE, name |-> chosen]],
                  options |-> group_options,
                  call |-> calculated(chosen, range[1], range[2]),
                  result |-> calculate_schedule(index, chosen, range[1], range[2])]

\* show_schedule: the state it returns and its call of calculate_schedule
show_schedule(index, data, text, anchor) ==
    IF data.group.is_none \/ data.group.name = <<>>
    THEN [state |-> "SELECT_GROUP", call |-> NoCall,
          result |-> [raised |-> "none", value |-> <<>>]]
    ELSE LET date_range == parse_date_range(text)
         IN  IF date_range = "None"
             THEN [state |-> "SHOW_SCHEDULE", call |-> NoCall,
                   result |-> [raised |-> "none", value |-> <<>>]]
             ELSE LET range == get_date_range(date_range, anchor).value
                  IN  [state |-> "SHOW_SCHEDULE",
                       call |-> calculated(data.group.name, range[1], range[2]),
                       result |-> calculate_schedule(index, data.group.name,
                                                     range[1], range[2])]

\* the templates read_schedule may find
BotTemplates == {<<>>, <<Math>>, <<Physics>>, <<Chemistry>>, <<Physics, Chemistry>>}

\* the texts the user may send
BotTexts ==
    {GroupA, GroupB, <<"b">>, <<"1", "b">>, <<".">>,
     <<"Sohodni">>, <<"Potochnyi tyzhden">>, <<"vchora">>}

InitBot ==
    /\ templates = <<>>
    /\ group_index = EmptyIndex
    /\ loaded = EmptyBook
    /\ call = NoCall
    /\ result = [raised |-> "none", value |-> <<>>]
    /\ today = Day0
    /\ resolved = NothingResolved
    /\ conversation = "NOT_RUNNING"
    /\ user_data = [group |-> NoGroup]
    /\ update = NoUpdate

\* main: read_schedule builds the book, build_bot hands it to the handlers
RunBot ==
    /\ conversation = "NOT_RUNNING"
    /\ \E template \in BotTemplates :
          LET book == add_template(EmptyBook, template)
          IN  /\ templates' = book.templates
              /\ group_index' = book.group_index
              /\ loaded' = book
              /\ call' = [NoCall EXCEPT !.op = "add_template", !.template = template]
    /\ result' = [raised |-> "none", value |-> <<>>]
    /\ conversation' = "END"
    /\ UNCHANGED <<today, resolved, user_data, update>>

\* /start, the entry point
Start ==
    /\ conversation = "END"
    /\ conversation' = "SELECT_GROUP"
    /\ update' = [NoUpdate EXCEPT !.handler = "start"]
    /\ call' = NoCall
    /\ result' = [raised |-> "none", value |-> <<>>]
    /\ UNCHANGED <<templates, group_index, loaded, today, resolved, user_data>>

\* a text message in state SELECT_GROUP
SelectGroup ==
    /\ conversation = "SELECT_GROUP"
    /\ \E text \in BotTexts :
          LET done == select_group(group_index, user_data, text, today)
          IN  /\ conversation' = done.state
              /\ user_data' = done.user_data
              /\ call' = done.call
              /\ result' = done.result
              /\ update' = [NoUpdate EXCEPT !.handler = "select_group", !.text = text,
                                            !.options = done.options]
    /\ UNCHANGED <<templates, group_index, loaded, today, resolved>>

\* a text message in state SHOW_SCHEDULE
ShowSchedule ==
    /\ conversation = "SHOW_SCHEDULE"
    /\ \E text \in BotTexts :
          LET done == show_schedule(group_index, user_data, text, today)
          IN  /\ conversation' = done.state
              /\ call' = done.call
              /\ result' = done.result
              /\ update' = [NoUpdate EXCEPT !.handler = "show_schedule", !.text = text]
    /\ UNCHANGED <<templates, group_index, loaded, today, resolved, user_data>>

\* an edited text message: update.message is None, the handler raises and the
\* conversation stays where it is
EditedMessage ==
    /\ conversation \in {"SELECT_GROUP", "SHOW_SCHEDULE"}
    /\ update' = [NoUpdate EXCEPT
                    !.handler = IF conversation = "SELECT_GROUP"
                                THEN "select_group" ELSE "show_schedule",
                    !.raised = "RuntimeError"]
    /\ call' = NoCall
    /\ result' = [raised |-> "none", value |-> <<>>]
    /\ UNCHANGED <<templates, group_index, loaded, today, resolved,
                   conversation, user_data>>

\* /cancel, the fallback
Cancel ==
    /\ conversation \in {"SELECT_GROUP", "SHOW_SCHEDULE"}
    /\ conversation' = "END"
    /\ update' = [NoUpdate EXCEPT !.handler = "cancel"]
    /\ call' = NoCall
    /\ result' = [raised |-> "none", value |-> <<>>]
    /\ UNCHANGED <<templates, group_index, loaded, today, resolved, user_data>>

NextBot == RunBot \/ Start \/ SelectGroup \/ ShowSchedule \/ EditedMessage \/ Cancel

SpecBot == InitBot /\ [][NextBot]_vars

-----------------------------------------------------------------------------
(* C11 *)

\* C11: for every anchor a, current_week resolves to (m, m + 6) with
\* m = a - weekday(a): m is a Monday, m + 6 a Sunday, and m <= a <= m + 6.
C11_CurrentWeekIsMondayToSunday ==
    resolved["current_week"].done =>
        LET m == today - weekday(today)
            week == resolved["current_week"]
        IN  /\ week.start = m /\ week.end = m + 6
            /\ (week.start + 6) % 7 = 0
            /\ (week.end + 6) % 7 = 6
            /\ week.start <= today /\ today <= week.end

\* the current week of a Sunday, whose Monday lies six days back
C11_Witness ==
    /\ resolved["current_week"].done
    /\ resolved["current_week"].end = today
    /\ result.value = <<today - 6, today>>

-----------------------------------------------------------------------------
(* C12 *)

\* C12: for every anchor a, last_week, current_week and next_week are each
\* seven days from a Monday, the next begins the day after the one before
\* ends, next_week of a is current_week of a + 7 and last_week of a is
\* current_week of a - 7.
C12_WeeksAreContiguous ==
    LET last == resolved["last_week"]
        current == resolved["current_week"]
        next == resolved["next_week"]
    IN  /\ \A week \in {last, current, next} :
              week.done => (week.end - week.start = 6 /\ (week.start + 6) % 7 = 0)
        /\ (last.done /\ current.done) => last.end + 1 = current.start
        /\ (current.done /\ next.done) => current.end + 1 = next.start
        /\ next.done =>
              <<next.start, next.end>> = get_date_range("current_week", today + 7).value
        /\ last.done =>
              <<last.start, last.end>> = get_date_range("current_week", today - 7).value

\* the three weeks resolved for a Thursday
C12_Witness ==
    /\ resolved["last_week"].done
    /\ resolved["current_week"].done
    /\ resolved["next_week"].done
    /\ (today + 6) % 7 = 3
    /\ resolved["last_week"].start < resolved["current_week"].start
    /\ resolved["current_week"].start < resolved["next_week"].start

-----------------------------------------------------------------------------
(* C13 *)

\* C13: for an item with a week parity and no dates, and every anchor, exactly
\* one of the schedule of the current week and the schedule of the next week
\* holds an occurrence of the item, across the end of a year too.
C13_EveryOtherWeek ==
    (/\ Len(templates) = 1
     /\ resolved["current_week"].done
     /\ resolved["next_week"].done)
    => ((resolved["current_week"].schedule # <<>>)
            # (resolved["next_week"].schedule # <<>>))

-----------------------------------------------------------------------------
(* C14 *)

\* C14: in state SHOW_SCHEDULE the group stored for the user is a key of the
\* index, and every calculate_schedule call of a handler is for a key of the
\* index; select_group moves to SHOW_SCHEDULE exactly when find_groups gave
\* it one name, and otherwise stays in SELECT_GROUP with the stored group as
\* it was.
C14_ShownGroupIsIndexed ==
    /\ [](conversation = "SHOW_SCHEDULE" =>
            (~user_data.group.is_none /\ Indexed(user_data.group.name)))
    /\ []((conversation # "NOT_RUNNING" /\ IsCalc) => Indexed(call.group))
    /\ [][(/\ conversation = "SELECT_GROUP"
           /\ update'.handler = "select_group"
           /\ update'.raised = "none"
           /\ update' # update)
          => IF Len(update'.options) = 1
             THEN conversation' = "SHOW_SCHEDULE"
             ELSE conversation' = "SELECT_GROUP" /\ user_data' = user_data]_vars

\* a group is shown after a text in another letter case found it alone among
\* two groups, and, earlier, another text had found none or several
C14_Witness ==
    /\ conversation = "SHOW_SCHEDULE"
    /\ Len(group_index.keys) = 2
    /\ update.handler = "select_group"
    /\ update.text # user_data.group.name
    /\ IsCalc /\ call.group = user_data.group.name

-----------------------------------------------------------------------------
(* C15 *)

\* C15: every indexed group is selectable: when select_group has handled a
\* text that is exactly the name of a group in the index, that name is the
\* stored group of the user and the conversation is in SHOW_SCHEDULE.
C15_IndexedGroupIsSelectable ==
    (/\ update.handler = "select_group"
     /\ update.raised = "none"
     /\ Indexed(update.text))
    => (/\ conversation = "SHOW_SCHEDULE"
        /\ ~user_data.group.is_none
        /\ user_data.group.name = update.text)

====
